---- MODULE Spec2Model ----
(***************************************************************************)
(* ddupe: content-addressed duplicate detection (src/src/lib.rs) and the   *)
(* deletion workflow of the command line tool (src/src/main.rs).           *)
(*                                                                         *)
(* A path is the sequence of its components (PathBuf compares component by *)
(* component), a file's content is a sequence of bytes, and a line of      *)
(* operator input is a sequence of one-character strings.                  *)
(***************************************************************************)
EXTENDS Integers, Sequences, FiniteSets, TLC

VARIABLES
    fs,             \* the filesystem: path -> [present, data]
    dirs,           \* the directories that exist
    fs0,            \* the filesystem when the run started (history)
    dirs0,          \* the directories when the run started (history)
    unreadable,     \* paths whose open/read fails (hash_file returns Err)
    meta,           \* fs::metadata as seen by analyse_duplicates: path -> [ok, len]
    files,          \* the flat path list handed to build_hash_map
    hash_map,       \* digest -> paths, as built by build_hash_map
    analysis,       \* the DuplicateAnalysis of the scan
    rerun,          \* the DuplicateAnalysis of a second analyse_duplicates call
    root_exists,    \* Args.path exists
    dry_run,        \* Args.dry_run
    interactive,    \* Args.interactive
    json_output,    \* Args.json_output: a path, or NoOutput
    pc,             \* where main (or the library caller) is
    input,          \* the line last read from stdin
    asked,          \* how many yes/no questions were asked
    prompts,        \* how many selection prompts were printed for the current group
    gidx,           \* delete_files_interactively: index of the current group
    cidx,           \* index of the next path / candidate to delete
    selections,     \* the outcome of prompt_for_selection for each resolved group
    deleted_count,  \* accumulator of delete_files / delete_files_interactively
    deleted_bytes,  \* accumulator of delete_files / delete_files_interactively
    attempted,      \* the paths delete_path was called on, in order (history)
    results,        \* the outcome tag of each of those calls (history)
    summary,        \* the closing message of the run: [kind, count, bytes]
    report,         \* the JsonReport serialized to json_output
    exit_code       \* the process exit status, or Running

vars == <<fs, dirs, fs0, dirs0, unreadable, meta, files, hash_map, analysis, rerun,
          root_exists, dry_run, interactive, json_output, pc, input, asked, prompts,
          gidx, cidx, selections, deleted_count, deleted_bytes, attempted, results,
          summary, report, exit_code>>

-----------------------------------------------------------------------------
(* Bounds of the model *)

\* longest path list handed to build_hash_map
MaxFiles == 4
\* most lookups (hashing a file, its metadata during the analysis) that fail in one scan
MaxFail == 1
\* most selection prompts printed for one group before the operator gives a valid line
MaxPrompts == 2

\* the scanned tree: d/a, d/b, e, f
Paths == {<<1, 1>>, <<1, 2>>, <<2>>, <<3>>}
\* where a report may be written: over a scanned file, a new file, a new file in a new directory
OutPaths == {<<1, 1>>, <<7>>, <<8, 1>>}
AllPaths == Paths \cup OutPaths
\* file contents: "x" and "zz"
Contents == {<<"x">>, <<"z", "z">>}

Absent == [present |-> FALSE, data |-> <<>>]
File(data) == [present |-> TRUE, data |-> data]
NoMeta == [ok |-> FALSE, len |-> 0]
Meta(len) == [ok |-> TRUE, len |-> len]
\* no --json-output: the empty path
NoOutput == <<>>
\* nothing read yet
NoInput == <<"(nothing read)">>
\* read_line returned Err
ReadError == <<"(read error)">>
\* the process has not exited / exited with status 0 / exited with status 1
Running == "running"
ExitSuccess == "exit 0"
ExitFailure == "exit 1"

-----------------------------------------------------------------------------
(* Sequences *)

Range(s) == {s[i] : i \in 1..Len(s)}

\* the sequences over S of length at most n
SeqsUpTo(S, n) == UNION {[1..k -> S] : k \in 0..n}

\* the orders in which the elements of a finite set can be visited
Perms(S) == {s \in [1..Cardinality(S) -> S] : Range(s) = S}

\* how often x occurs in s
RECURSIVE Count(_, _)
Count(x, s) == IF s = <<>> THEN 0
               ELSE (IF Head(s) = x THEN 1 ELSE 0) + Count(x, Tail(s))

Parent(p) == SubSeq(p, 1, Len(p) - 1)

\* a path's ancestors below the working directory, the path itself included
Ancestors(p) == {SubSeq(p, 1, k) : k \in 1..Len(p)}

-----------------------------------------------------------------------------
(* src/src/lib.rs *)

\* Ord for Path: component by component, a proper prefix first
RECURSIVE PathLess(_, _)
PathLess(p, q) ==
    IF p = <<>> THEN q # <<>>
    ELSE IF q = <<>> THEN FALSE
    ELSE IF Head(p) # Head(q) THEN Head(p) < Head(q)
    ELSE PathLess(Tail(p), Tail(q))

\* one step of the stable sort: x goes after the elements not greater than it
RECURSIVE Insert(_, _)
Insert(x, s) ==
    IF s = <<>> THEN <<x>>
    ELSE IF PathLess(x, Head(s)) THEN <<x>> \o s
    ELSE <<Head(s)>> \o Insert(x, Tail(s))

RECURSIVE SortFrom(_, _)
SortFrom(s, acc) == IF s = <<>> THEN acc ELSE SortFrom(Tail(s), Insert(Head(s), acc))

\* a bug: the members are left in traversal order
UnsortedPaths(paths) == paths

\* files.sort()
SortPaths(paths) == SortFrom(paths, <<>>)

\* the hex SHA-256 digest of a content
Digest(data) == [sha256 |-> data]

\* a bug: a file that cannot be opened or read is hashed as if it were empty
HashFileErrAsEmpty(path) ==
    [ok |-> TRUE,
     hash |-> IF fs[path].present /\ path \notin unreadable
              THEN Digest(fs[path].data) ELSE Digest(<<>>)]

\* hash_file: the SHA-256 digest of the content, or Err
hash_file(path) ==
    IF fs[path].present /\ path \notin unreadable
    THEN [ok |-> TRUE, hash |-> Digest(fs[path].data)]
    ELSE [ok |-> FALSE, hash |-> Digest(<<>>)]

\* build_hash_map: map.entry(hash).or_default().push(path) for every path that hashes
RECURSIVE BuildFrom(_, _)
BuildFrom(list, map) ==
    IF list = <<>> THEN map
    ELSE LET path == Head(list)
             h    == hash_file(path)
         IN  IF ~h.ok THEN BuildFrom(Tail(list), map)
             ELSE IF h.hash \in DOMAIN map
                  THEN BuildFrom(Tail(list),
                                 [map EXCEPT ![h.hash] = Append(@, path)])
                  ELSE BuildFrom(Tail(list),
                                 [d \in DOMAIN map \cup {h.hash} |->
                                     IF d = h.hash THEN <<path>> ELSE map[d]])

EmptyMap == [d \in {} |-> <<>>]
build_hash_map(list) == BuildFrom(list, EmptyMap)

\* the bytes the dupes of one group add to total_saving_bytes
RECURSIVE SavingOf(_, _)
SavingOf(dupes, m) ==
    IF dupes = <<>> THEN 0
    ELSE (IF m[Head(dupes)].ok THEN m[Head(dupes)].len ELSE 0)
         + SavingOf(Tail(dupes), m)

EmptyAnalysis == [groups |-> <<>>, removable_files |-> <<>>, total_saving_bytes |-> 0]

\* the loop of analyse_duplicates over the map, visited in `order`
RECURSIVE AnalyseFrom(_, _, _, _)
AnalyseFrom(map, order, m, acc) ==
    IF order = <<>> THEN acc
    ELSE LET members == map[Head(order)]
         IN  IF Len(members) <= 1 THEN AnalyseFrom(map, Tail(order), m, acc)
             ELSE LET sorted == SortPaths(members)
                      keep   == Head(sorted)
                      dupes  == Tail(sorted)
                  IN  AnalyseFrom(map, Tail(order), m,
                        [groups |-> Append(acc.groups, [keep |-> keep, dupes |-> dupes]),
                         removable_files |-> acc.removable_files \o dupes,
                         total_saving_bytes |->
                             acc.total_saving_bytes + SavingOf(dupes, m)])

\* analyse_duplicates, the HashMap being iterated in `order`
analyse_duplicates(map, order, m) == AnalyseFrom(map, order, m, EmptyAnalysis)

\* DuplicateAnalysis::total_dupes
total_dupes(a) == Len(a.removable_files)

\* what fs::metadata answers during the analysis when the lookups of `bad` fail
MetaOf(bad) ==
    [p \in AllPaths |->
        IF fs[p].present /\ p \notin bad THEN Meta(Len(fs[p].data)) ELSE NoMeta]

-----------------------------------------------------------------------------
(* The library called on a path list: build_hash_map, then analyse_duplicates,
   then analyse_duplicates again on the same map. *)

Trees == {t \in [AllPaths -> {Absent} \cup {File(c) : c \in Contents}] :
             \A p \in AllPaths \ Paths : t[p] = Absent}
FullTrees == {t \in Trees : \A p \in Paths : t[p].present}

\* which lookups fail: hashing for the first set, metadata for the second
Failures == {f \in (SUBSET Paths) \X (SUBSET Paths) :
                Cardinality(f[1]) + Cardinality(f[2]) <= MaxFail}

DirsOf(t) == UNION {Ancestors(Parent(p)) : p \in {q \in AllPaths : t[q].present}}

NoSummary == [kind |-> "none", count |-> 0, bytes |-> 0]
NoReport == [written |-> FALSE, duplicate_groups |-> <<>>, removable_count |-> 0,
             savings_bytes |-> 0, dry_run |-> FALSE, interactive |-> FALSE, mode |-> ""]

\* nothing asked, nothing deleted, nothing printed yet
Idle ==
    /\ input = NoInput /\ asked = 0 /\ prompts = 0
    /\ gidx = 0 /\ cidx = 0 /\ selections = <<>> /\ deleted_count = 0
    /\ deleted_bytes = 0 /\ attempted = <<>> /\ results = <<>>
    /\ summary = NoSummary /\ report = NoReport /\ exit_code = Running

InitAnalyse ==
    /\ fs \in FullTrees
    /\ fs0 = fs /\ dirs = DirsOf(fs) /\ dirs0 = dirs
    /\ \E f \in Failures : unreadable = f[1] /\ meta = MetaOf(f[2])
    /\ files \in SeqsUpTo(Paths, MaxFiles)
    /\ hash_map = EmptyMap
    /\ analysis = EmptyAnalysis /\ rerun = EmptyAnalysis
    /\ pc = "lib"
    /\ root_exists = TRUE /\ dry_run = FALSE /\ interactive = FALSE
    /\ json_output = NoOutput
    /\ Idle

runVars == <<fs, dirs, fs0, dirs0, unreadable, meta, root_exists, dry_run, interactive,
             json_output, input, asked, prompts, gidx, cidx, selections, deleted_count,
             deleted_bytes, attempted, results, summary, report, exit_code>>

BuildHashMap ==
    /\ pc = "lib"
    /\ hash_map' = build_hash_map(files)
    /\ pc' = "built"
    /\ UNCHANGED <<files, analysis, rerun, runVars>>

Analyse ==
    /\ pc = "built"
    /\ \E order \in Perms(DOMAIN hash_map) :
          analysis' = analyse_duplicates(hash_map, order, meta)
    /\ pc' = "analysed_lib"
    /\ UNCHANGED <<files, hash_map, rerun, runVars>>

AnalyseAgain ==
    /\ pc = "analysed_lib"
    /\ \E order \in Perms(DOMAIN hash_map) :
          rerun' = analyse_duplicates(hash_map, order, meta)
    /\ pc' = "reanalysed"
    /\ UNCHANGED <<files, hash_map, analysis, runVars>>

NextAnalyse == BuildHashMap \/ Analyse \/ AnalyseAgain

SpecAnalyse == InitAnalyse /\ [][NextAnalyse]_vars

-----------------------------------------------------------------------------
(* src/src/main.rs: reading the operator's answers *)

EOF == <<>>
\* the lines the operator may type (EOF: end of input, read_line returns Ok(0))
Lines == {
    EOF,
    <<"\n">>,
    <<"y", "\n">>,
    <<"Y", "\n">>,
    <<"y">>,
    <<"y", "e", "s", "\n">>,
    <<" ", "Y", "e", "S", " ", "\n">>,
    <<"y", "e", "\n">>,
    <<"n", "\n">>,
    <<"a", "\n">>,
    <<"A", "L", "l", "\n">>,
    <<"a", "l", "\n">>,
    <<"x", "\n">>,
    <<"0", "\n">>,
    <<"1", "\n">>,
    <<" ", "2", "\n">>,
    <<"3", "\n">>,
    <<"4", "\n">>,
    <<"5", "\n">>,
    <<"+", "2", "\n">>,
    <<"0", "3", "\n">>,
    <<"-", "1", "\n">>,
    <<"1", " ", "2", "\n">> }
\* what one read_line call can return
Reads == Lines \cup {ReadError}

\* char::is_whitespace, over the characters of Lines
IsSpace(c) == c \in {" ", "\n", "\t", "\r"}

RECURSIVE TrimStart(_)
TrimStart(s) == IF s # <<>> /\ IsSpace(Head(s)) THEN TrimStart(Tail(s)) ELSE s

RECURSIVE TrimEnd(_)
TrimEnd(s) == IF s # <<>> /\ IsSpace(s[Len(s)]) THEN TrimEnd(SubSeq(s, 1, Len(s) - 1)) ELSE s

\* str::trim
Trim(s) == TrimEnd(TrimStart(s))

\* u8::to_ascii_lowercase, over the letters of Lines
ToAsciiLowercase(c) ==
    CASE c = "A" -> "a"
      [] c = "E" -> "e"
      [] c = "L" -> "l"
      [] c = "S" -> "s"
      [] c = "Y" -> "y"
      [] OTHER -> c

\* str::eq_ignore_ascii_case
EqIgnoreAsciiCase(s, t) ==
    /\ Len(s) = Len(t)
    /\ \A i \in 1..Len(s) : ToAsciiLowercase(s[i]) = ToAsciiLowercase(t[i])

Digits == <<"0", "1", "2", "3", "4", "5", "6", "7", "8", "9">>
IsDigit(c) == \E d \in 1..Len(Digits) : Digits[d] = c
DigitValue(c) == (CHOOSE d \in 1..Len(Digits) : Digits[d] = c) - 1

RECURSIVE DecimalValue(_, _)
DecimalValue(s, acc) ==
    IF s = <<>> THEN acc ELSE DecimalValue(Tail(s), acc * Len(Digits) + DigitValue(Head(s)))

\* str::parse::<usize>: an optional '+', then one or more decimal digits
ParseUsize(s) ==
    LET body == IF s # <<>> /\ Head(s) = "+" THEN Tail(s) ELSE s
    IN  IF body # <<>> /\ \A i \in 1..Len(body) : IsDigit(body[i])
        THEN [ok |-> TRUE, value |-> DecimalValue(body, 0)]
        ELSE [ok |-> FALSE, value |-> 0]

\* a bug: any answer that starts with a 'y' counts as a yes
AskYesNoPrefix(line) ==
    /\ line # ReadError
    /\ Trim(line) # <<>>
    /\ ToAsciiLowercase(Head(Trim(line))) = "y"

\* ask_yes_no, given what read_line returned
ask_yes_no(line) ==
    IF line = ReadError THEN FALSE
    ELSE LET answer == Trim(line)
         IN  EqIgnoreAsciiCase(answer, <<"y">>) \/ EqIgnoreAsciiCase(answer, <<"y", "e", "s">>)

Resolved(n) == [kind |-> "Resolved", n |-> n]
KeptAll == [kind |-> "KeptAll", n |-> 0]
AwaitingChoice == [kind |-> "AwaitingChoice", n |-> 0]

\* a bug: an empty line is no choice, the prompt asks again
PromptEmptyRetries(line, max) ==
    IF line = ReadError THEN Resolved(1)
    ELSE LET trimmed == Trim(line)
             num == ParseUsize(trimmed)
         IN  IF trimmed = <<>> THEN AwaitingChoice
             ELSE IF EqIgnoreAsciiCase(trimmed, <<"a">>)
                     \/ EqIgnoreAsciiCase(trimmed, <<"a", "l", "l">>) THEN KeptAll
             ELSE IF num.ok /\ num.value >= 1 /\ num.value <= max THEN Resolved(num.value)
             ELSE AwaitingChoice

\* a bug: the range check starts at 0, so "0" selects a candidate that does not exist
PromptAcceptsZero(line, max) ==
    IF line = ReadError THEN Resolved(1)
    ELSE LET trimmed == Trim(line)
             num == ParseUsize(trimmed)
         IN  IF trimmed = <<>> THEN Resolved(1)
             ELSE IF EqIgnoreAsciiCase(trimmed, <<"a">>)
                     \/ EqIgnoreAsciiCase(trimmed, <<"a", "l", "l">>) THEN KeptAll
             ELSE IF num.ok /\ num.value <= max THEN Resolved(num.value)
             ELSE AwaitingChoice

\* one turn of the loop of prompt_for_selection(max), given what read_line returned:
\* Some(n) is Resolved(n), None is KeptAll, and AwaitingChoice is another turn
prompt_for_selection(line, max) ==
    IF line = ReadError THEN Resolved(1)
    ELSE LET trimmed == Trim(line)
             num == ParseUsize(trimmed)
         IN  IF trimmed = <<>> THEN Resolved(1)
             ELSE IF EqIgnoreAsciiCase(trimmed, <<"a">>)
                     \/ EqIgnoreAsciiCase(trimmed, <<"a", "l", "l">>) THEN KeptAll
             ELSE IF num.ok /\ num.value >= 1 /\ num.value <= max THEN Resolved(num.value)
             ELSE AwaitingChoice

-----------------------------------------------------------------------------
(* src/src/main.rs: deleting *)

\* what the filesystem answers to one delete_path call
DeleteAnswers == {"ok", "metadata fails", "remove_file fails"}

\* delete_path(path): the tag printed, the bytes freed (Some(size) or None),
\* and the filesystem afterwards
delete_path(path, answer) ==
    IF ~fs[path].present \/ answer = "metadata fails"
    THEN [tag |-> "SKIPPED", some |-> FALSE, size |-> 0, fs |-> fs]
    ELSE IF answer = "remove_file fails"
    THEN [tag |-> "FAILED", some |-> FALSE, size |-> 0, fs |-> fs]
    ELSE [tag |-> "DELETED", some |-> TRUE, size |-> Len(fs[path].data),
          fs |-> [fs EXCEPT ![path] = Absent]]

\* a bug: every attempt is counted, whether or not the file was removed
CountedAlways(count, res) == count + 1

\* deleted_count after one delete_path call
Counted(count, res) == IF res.some THEN count + 1 ELSE count

\* deleted_bytes after one delete_path call
Freed(bytes, res) == IF res.some THEN bytes + res.size ELSE bytes

\* candidates of a group: keep first, then the dupes
Candidates(group) == <<group.keep>> \o group.dupes

Done(kind, code) ==
    /\ pc' = "done"
    /\ summary' = [kind |-> kind, count |-> deleted_count, bytes |-> deleted_bytes]
    /\ exit_code' = code

libVars == <<files, hash_map, rerun>>
envVars == <<unreadable, meta, fs0, dirs0, root_exists, dry_run, interactive, json_output>>
promptVars == <<input, asked, prompts, selections>>
deleteVars == <<gidx, cidx, deleted_count, deleted_bytes, attempted, results>>

-----------------------------------------------------------------------------
(* src/src/main.rs: main *)

Init ==
    /\ root_exists \in BOOLEAN
    /\ fs \in IF root_exists THEN Trees ELSE {[p \in AllPaths |-> Absent]}
    /\ fs0 = fs /\ dirs = DirsOf(fs) /\ dirs0 = dirs
    /\ \E f \in Failures : unreadable = f[1] /\ meta = MetaOf(f[2])
    /\ dry_run \in BOOLEAN
    /\ interactive \in BOOLEAN
    /\ json_output \in {NoOutput} \cup OutPaths
    /\ files = <<>> /\ hash_map = EmptyMap
    /\ analysis = EmptyAnalysis /\ rerun = EmptyAnalysis
    /\ pc = "main"
    /\ Idle

\* collect_files: the regular files under the root, in the order the walk meets them
collect_files == Perms({p \in Paths : fs[p].present})

\* main, lines 319-326: the root does not exist
RootMissing ==
    /\ pc = "main"
    /\ ~root_exists
    /\ Done("root does not exist", ExitSuccess)
    /\ UNCHANGED <<fs, dirs, analysis, report, libVars, envVars, promptVars, deleteVars>>

\* main, lines 335-341: nothing to hash
NoFiles ==
    /\ pc = "main"
    /\ root_exists
    /\ collect_files = {<<>>}
    /\ Done("no files", ExitSuccess)
    /\ UNCHANGED <<fs, dirs, analysis, report, libVars, envVars, promptVars, deleteVars>>

\* main, lines 335-380: collect the files, hash each, analyse the map
Scan ==
    /\ pc = "main"
    /\ root_exists
    /\ collect_files # {<<>>}
    /\ \E list \in collect_files :
          LET map == build_hash_map(list)
          IN  \E order \in Perms(DOMAIN map) :
                 analysis' = analyse_duplicates(map, order, meta)
    /\ pc' = "analysed"
    /\ UNCHANGED <<fs, dirs, summary, exit_code, report, libVars, envVars, promptVars,
                   deleteVars>>

\* JsonGroup / JsonReport as write_json_report fills them
JsonReport(a) ==
    [written |-> TRUE,
     duplicate_groups |-> [i \in 1..Len(a.groups) |-> [files |-> Candidates(a.groups[i])]],
     removable_count |-> total_dupes(a),
     savings_bytes |-> a.total_saving_bytes,
     dry_run |-> TRUE,
     interactive |-> interactive,
     mode |-> "json"]

\* what the filesystem answers to write_json_report
WriteAnswers == {"ok", "create_dir_all fails", "File::create fails", "write fails"}

\* main, lines 382-399, and write_json_report
WriteJsonReport ==
    /\ pc = "analysed"
    /\ json_output # NoOutput
    /\ \E answer \in WriteAnswers :
          LET parent == Parent(json_output)
              made   == IF parent # <<>> THEN dirs \cup Ancestors(parent) ELSE dirs
          IN  /\ answer = "create_dir_all fails" => parent # <<>>
              /\ IF answer = "create_dir_all fails"
                 THEN \E k \in 0..(Len(parent) - 1) :
                         dirs' = dirs \cup Ancestors(SubSeq(parent, 1, k))
                 ELSE dirs' = made
              /\ fs' = CASE answer = "ok" ->
                              [fs EXCEPT ![json_output] = File(<<"{", "}">>)]
                         [] answer = "write fails" ->
                              [fs EXCEPT ![json_output] = File(<<>>)]
                         [] OTHER -> fs
              /\ report' = IF answer = "ok" THEN JsonReport(analysis) ELSE report
              /\ IF answer = "ok"
                 THEN Done("report written", ExitSuccess)
                 ELSE Done("report failed", ExitFailure)
    /\ UNCHANGED <<analysis, libVars, envVars, promptVars, deleteVars>>

\* main, lines 403-406 and 442-444: nothing to remove
NoDuplicates ==
    /\ pc = "analysed"
    /\ json_output = NoOutput
    /\ analysis.groups = <<>> \/ analysis.removable_files = <<>>
    /\ Done("no duplicates", ExitSuccess)
    /\ UNCHANGED <<fs, dirs, analysis, report, libVars, envVars, promptVars, deleteVars>>

\* a bug: the --dry-run flag is not looked at
DryRunIgnored == FALSE

\* main, line 447: if args.dry_run
DryRunReturns == dry_run

\* main, lines 447-454
DryRun ==
    /\ pc = "analysed"
    /\ json_output = NoOutput
    /\ analysis.groups # <<>> /\ analysis.removable_files # <<>>
    /\ DryRunReturns
    /\ Done("dry run", ExitSuccess)
    /\ UNCHANGED <<fs, dirs, analysis, report, libVars, envVars, promptVars, deleteVars>>

\* main, lines 467-471: ask_user_to_confirm
AskUserToConfirm ==
    /\ pc = "analysed"
    /\ json_output = NoOutput
    /\ analysis.groups # <<>> /\ analysis.removable_files # <<>>
    /\ ~DryRunReturns /\ ~interactive
    /\ \E line \in Reads :
          /\ input' = line
          /\ asked' = asked + 1
          /\ IF ask_yes_no(line)
             THEN /\ pc' = "delete_files"
                  /\ cidx' = 1
                  /\ UNCHANGED <<summary, exit_code>>
             ELSE /\ Done("aborted", ExitSuccess)
                  /\ UNCHANGED cidx
    /\ UNCHANGED <<fs, dirs, analysis, report, libVars, envVars, prompts, selections, gidx,
                   deleted_count, deleted_bytes, attempted, results>>

\* a bug: the loop also ends at the first path that could not be removed
DeleteFilesStopsOnFailure ==
    \/ cidx > Len(analysis.removable_files)
    \/ results # <<>> /\ results[Len(results)] # "DELETED"

\* delete_files, line 185: `for path in paths` has run out of paths
DeleteFilesFinished == cidx > Len(analysis.removable_files)

\* delete_files, lines 185-190: one turn of the loop
DeleteFiles ==
    /\ pc = "delete_files"
    /\ ~DeleteFilesFinished
    /\ \E answer \in DeleteAnswers :
          LET path == analysis.removable_files[cidx]
              res  == delete_path(path, answer)
          IN  /\ fs' = res.fs
              /\ deleted_count' = Counted(deleted_count, res)
              /\ deleted_bytes' = Freed(deleted_bytes, res)
              /\ attempted' = Append(attempted, path)
              /\ results' = Append(results, res.tag)
    /\ cidx' = cidx + 1
    /\ UNCHANGED <<dirs, analysis, report, pc, summary, exit_code, libVars, envVars,
                   promptVars, gidx>>

\* delete_files returns; main, lines 476-481: the summary
DeleteFilesDone ==
    /\ pc = "delete_files"
    /\ DeleteFilesFinished
    /\ Done("done", ExitSuccess)
    /\ UNCHANGED <<fs, dirs, analysis, report, libVars, envVars, promptVars, deleteVars>>

\* main, lines 457-458: delete_files_interactively is entered
StartInteractive ==
    /\ pc = "analysed"
    /\ json_output = NoOutput
    /\ analysis.groups # <<>> /\ analysis.removable_files # <<>>
    /\ ~DryRunReturns /\ interactive
    /\ pc' = "prompt"
    /\ gidx' = 1
    /\ UNCHANGED <<fs, dirs, analysis, report, summary, exit_code, libVars, envVars,
                   promptVars, cidx, deleted_count, deleted_bytes, attempted, results>>

\* a bug: the loop over the groups steps over the group after this one
NextGroupSkips ==
    /\ gidx' = gidx + 2
    /\ pc' = IF gidx + 2 > Len(analysis.groups) THEN "summary" ELSE "prompt"
    /\ prompts' = 0

\* the group after this one, or the end of delete_files_interactively
NextGroup ==
    /\ gidx' = gidx + 1
    /\ pc' = IF gidx + 1 > Len(analysis.groups) THEN "summary" ELSE "prompt"
    /\ prompts' = 0

\* delete_files_interactively, lines 236-246: one read of prompt_for_selection
PromptFrom(reads) ==
    /\ pc = "prompt"
    /\ \E line \in reads :
          LET selection == prompt_for_selection(line, Len(Candidates(analysis.groups[gidx])))
          IN  /\ input' = line
              /\ CASE selection = AwaitingChoice ->
                        /\ prompts < MaxPrompts
                        /\ prompts' = prompts + 1
                        /\ UNCHANGED <<pc, gidx, cidx, selections>>
                   [] selection = KeptAll ->
                        /\ selections' = Append(selections, selection)
                        /\ NextGroup
                        /\ UNCHANGED cidx
                   [] OTHER ->
                        /\ selections' = Append(selections, selection)
                        /\ pc' = "delete_candidates"
                        /\ cidx' = 1
                        /\ UNCHANGED <<gidx, prompts>>
    /\ UNCHANGED <<fs, dirs, analysis, report, summary, exit_code, libVars, envVars, asked,
                   deleted_count, deleted_bytes, attempted, results>>

\* the prompt of a run whose standard input may be a terminal: any read can follow any
PromptForSelection == PromptFrom(Reads)

\* a bug: the default candidate is spared, whatever was selected
KeepIdxDefault == 1 - 1

\* a bug: the selection is taken as a 0-based index, so the last choice spares nothing
KeepIdxOneBased == selections[gidx].n

\* keep_idx = selection.unwrap() - 1
keep_idx == selections[gidx].n - 1

\* delete_files_interactively, lines 254-262: one turn of the loop over the candidates
DeleteCandidate ==
    /\ pc = "delete_candidates"
    /\ LET candidates == Candidates(analysis.groups[gidx])
           i == cidx - 1
       IN  /\ IF i = keep_idx
              THEN UNCHANGED <<fs, deleted_count, deleted_bytes, attempted, results>>
              ELSE \E answer \in DeleteAnswers :
                      LET res == delete_path(candidates[cidx], answer)
                      IN  /\ fs' = res.fs
                          /\ deleted_count' = Counted(deleted_count, res)
                          /\ deleted_bytes' = Freed(deleted_bytes, res)
                          /\ attempted' = Append(attempted, candidates[cidx])
                          /\ results' = Append(results, res.tag)
           /\ IF cidx = Len(candidates)
              THEN NextGroup /\ cidx' = 0
              ELSE cidx' = cidx + 1 /\ UNCHANGED <<pc, gidx, prompts>>
    /\ UNCHANGED <<dirs, analysis, report, summary, exit_code, libVars, envVars, input,
                   asked, selections>>

\* delete_files_interactively returns; main, lines 460-465: the summary
InteractiveDone ==
    /\ pc = "summary"
    /\ Done("done", ExitSuccess)
    /\ UNCHANGED <<fs, dirs, analysis, report, libVars, envVars, promptVars, deleteVars>>

Next ==
    \/ RootMissing
    \/ NoFiles
    \/ Scan
    \/ WriteJsonReport
    \/ NoDuplicates
    \/ DryRun
    \/ AskUserToConfirm
    \/ DeleteFiles
    \/ DeleteFilesDone
    \/ StartInteractive
    \/ PromptForSelection
    \/ DeleteCandidate
    \/ InteractiveDone

Spec == Init /\ [][Next]_vars

-----------------------------------------------------------------------------
(* An interactive run whose standard input is a finite sequence of lines (a pipe or a
   file): once read_line has returned Ok(0) at the end of the input, every later
   read_line returns Ok(0) too.  A failed read (a line that is not UTF-8) consumes the
   line and leaves the rest of the input to the next read. *)

Stdin == IF input = EOF THEN {EOF} ELSE Reads

PromptForSelectionPiped == PromptFrom(Stdin)

InitInteractive ==
    /\ Init
    /\ root_exists /\ interactive /\ ~dry_run /\ json_output = NoOutput

NextInteractive ==
    \/ NoFiles
    \/ Scan
    \/ NoDuplicates
    \/ StartInteractive
    \/ PromptForSelectionPiped
    \/ DeleteCandidate
    \/ InteractiveDone

\* the process is scheduled until main returns; a blocked read_line returns once the
\* input has a line or has ended
SpecInteractive ==
    InitInteractive /\ [][NextInteractive]_vars /\ WF_vars(NextInteractive)

-----------------------------------------------------------------------------
(* The claims about analyse_duplicates, checked under SpecAnalyse *)

\* s and t hold the same paths, each as often
SameMembers(s, t) == \A p \in Range(s) \cup Range(t) : Count(p, s) = Count(p, t)

\* the buckets that hold two or more members
DupBuckets == {d \in DOMAIN hash_map : Len(hash_map[d]) >= 2}

RECURSIVE Flatten(_)
Flatten(ss) == IF ss = <<>> THEN <<>> ELSE Head(ss) \o Flatten(Tail(ss))

AllDupes(a) == Flatten([i \in 1..Len(a.groups) |-> a.groups[i].dupes])

RECURSIVE SumOver(_, _)
SumOver(S, f) ==
    IF S = {} THEN 0
    ELSE LET x == CHOOSE y \in S : TRUE IN f[x] + SumOver(S \ {x}, f)

\* C4: analyse_duplicates emits one group per bucket of two or more members and none
\* for a smaller bucket; a group holds all the members of its bucket, its keep is the
\* smallest path of the bucket and its dupes are the other members in ascending order,
\* whatever the order of the members in the bucket.
C4_GroupPerBucket ==
    pc = "analysed_lib" =>
        /\ Len(analysis.groups) = Cardinality(DupBuckets)
        /\ \A d \in DupBuckets :
              \E i \in 1..Len(analysis.groups) :
                 SameMembers(Candidates(analysis.groups[i]), hash_map[d])
        /\ \A i \in 1..Len(analysis.groups) :
              LET g == analysis.groups[i]
              IN  /\ g.dupes # <<>>
                  /\ \A j \in 1..Len(g.dupes) : ~PathLess(g.dupes[j], g.keep)
                  /\ \A j, k \in 1..Len(g.dupes) :
                        j < k => ~PathLess(g.dupes[k], g.dupes[j])

\* C4: a bucket of three members listed out of order was grouped, and a bucket of one skipped
C4_Witness ==
    /\ pc = "analysed_lib"
    /\ Len(analysis.groups) = 1
    /\ \E d \in DOMAIN hash_map : Len(hash_map[d]) = 1
    /\ \E d \in DupBuckets :
          /\ Len(hash_map[d]) = 3
          /\ PathLess(hash_map[d][3], hash_map[d][2])
          /\ PathLess(hash_map[d][2], hash_map[d][1])

\* C5: removable_files is the union of the dupes of all groups, as long as their sum,
\* and holds no path that is the keep of a group.
C5_RemovableDisjointFromKeeps ==
    pc = "analysed_lib" =>
        /\ analysis.removable_files = AllDupes(analysis)
        /\ \A i \in 1..Len(analysis.groups) :
              analysis.groups[i].keep \notin Range(analysis.removable_files)

\* C6: total_saving_bytes is the sum of the sizes of the files of removable_files whose
\* metadata lookup succeeded, each file counted once; a dupe whose lookup failed is
\* listed all the same.
C6_SavingCountsEachFileOnce ==
    pc = "analysed_lib" =>
        /\ analysis.total_saving_bytes =
              SumOver({p \in Range(analysis.removable_files) : meta[p].ok},
                      [p \in AllPaths |-> meta[p].len])
        /\ \A i \in 1..Len(analysis.groups) :
              Range(analysis.groups[i].dupes) \subseteq Range(analysis.removable_files)

\* no path is listed twice
NoRepeats(list) == \A i, j \in 1..Len(list) : list[i] = list[j] => i = j

\* C7: analysing the same map again over the unchanged files gives the identical
\* DuplicateAnalysis, whatever the order in which the buckets are iterated (stated
\* here for the path lists without a repeated path only).
C7_RerunIdentical == pc = "reanalysed" /\ NoRepeats(files) => rerun = analysis

-----------------------------------------------------------------------------
(* The claims about a run of the tool, checked under Spec *)

BatchMode ==
    /\ json_output = NoOutput /\ ~dry_run /\ ~interactive
    /\ analysis.removable_files # <<>>

InteractiveMode ==
    /\ json_output = NoOutput /\ ~dry_run /\ interactive
    /\ analysis.removable_files # <<>>

\* the lines of Lines that say yes: "y" or "yes" once trimmed, in any case
YesLines == {<<"y", "\n">>, <<"Y", "\n">>, <<"y">>, <<"y", "e", "s", "\n">>,
             <<" ", "Y", "e", "S", " ", "\n">>}

IsPrefix(s, t) == Len(s) <= Len(t) /\ s = SubSeq(t, 1, Len(s))

\* C1: in batch-confirm mode one yes/no question is asked for the whole scan; on a yes
\* a deletion is attempted on every path of removable_files and on no other path; on
\* any other answer (empty, end of input, a read failure) no deletion is attempted and
\* every original file is still there.
C1_BatchConfirm ==
    BatchMode =>
        /\ asked <= 1
        /\ pc \in {"delete_files", "done"} => asked = 1
        /\ asked = 0 => attempted = <<>> /\ fs = fs0
        /\ asked = 1 /\ input \in YesLines =>
              /\ IsPrefix(attempted, analysis.removable_files)
              /\ pc = "done" => attempted = analysis.removable_files
        /\ asked = 1 /\ input \notin YesLines =>
              /\ pc = "done"
              /\ attempted = <<>>
              /\ fs = fs0

\* C1: the operator typed " YeS " and every one of two or more removable files was tried
C1_Witness ==
    /\ BatchMode
    /\ pc = "done"
    /\ input = <<" ", "Y", "e", "S", " ", "\n">>
    /\ Len(attempted) >= 2
    /\ attempted = analysis.removable_files

\* C2 as stated: a dry-run or report-only run leaves the set of existing paths and
\* their contents as they were, whatever the report output path.
C2_NoFilesystemChange ==
    (dry_run \/ json_output # NoOutput) => fs = fs0 /\ dirs = dirs0

\* C2 as amended: a dry-run run changes nothing; a report-only run attempts no
\* deletion, every path that existed still exists, and nothing changes but the report
\* output path itself (created or overwritten) and its missing parent directories.
C2_NothingDeleted ==
    (dry_run \/ json_output # NoOutput) =>
        /\ attempted = <<>>
        /\ asked = 0
        /\ \A p \in AllPaths : fs0[p].present => fs[p].present
        /\ \A p \in AllPaths \ {json_output} : fs[p] = fs0[p]
        /\ dirs0 \subseteq dirs
        /\ dirs \subseteq dirs0 \cup Ancestors(Parent(json_output))
        /\ json_output = NoOutput => fs = fs0 /\ dirs = dirs0

\* C2: a report was written over a scanned file, with --interactive and --dry-run set
\* and duplicates found
C2_Witness ==
    /\ pc = "done"
    /\ json_output # NoOutput /\ interactive /\ dry_run
    /\ fs0[json_output].present
    /\ report.written
    /\ analysis.groups # <<>>
    /\ fs # fs0

\* the deletion loop of group k is over
GroupFinished(k) == k < gidx \/ pc \in {"summary", "done"}

\* C3: in interactive mode, for a group resolved as Resolved(n) a deletion is attempted
\* on every candidate but the n-th and never on the n-th, which survives; for a group
\* resolved as KeptAll no deletion is attempted on any candidate; when every attempt
\* succeeds, each is counted.
C3_InteractiveResolution ==
    InteractiveMode =>
        /\ \A k \in 1..Len(selections) :
              LET c == Candidates(analysis.groups[k])
                  sel == selections[k]
              IN  /\ sel.kind = "KeptAll" =>
                        \A i \in 1..Len(c) : c[i] \notin Range(attempted)
                  /\ sel.kind = "Resolved" =>
                        /\ sel.n \in 1..Len(c)
                        /\ c[sel.n] \notin Range(attempted)
                        /\ fs[c[sel.n]] = fs0[c[sel.n]]
                        /\ GroupFinished(k) =>
                              \A i \in 1..Len(c) : i # sel.n => Count(c[i], attempted) = 1
        /\ (\A i \in 1..Len(results) : results[i] = "DELETED") =>
              deleted_count = Len(attempted)

\* C3: a group of three candidates, the third selected: the first two are gone, the
\* third is there, two deletions counted
C3_Witness ==
    /\ InteractiveMode
    /\ pc = "done"
    /\ Len(analysis.groups) = 1
    /\ Len(Candidates(analysis.groups[1])) = 3
    /\ selections = <<Resolved(3)>>
    /\ LET c == Candidates(analysis.groups[1])
       IN  ~fs[c[1]].present /\ ~fs[c[2]].present /\ fs[c[3]].present
    /\ summary.count = 2

\* what delete_files_interactively is to attempt, group after group
RECURSIVE Except(_, _)
Except(c, n) ==
    IF c = <<>> THEN <<>>
    ELSE IF n = 1 THEN Tail(c)
    ELSE <<Head(c)>> \o Except(Tail(c), n - 1)

ToAttempt ==
    Flatten([k \in 1..Len(selections) |->
                IF selections[k].kind = "KeptAll" THEN <<>>
                ELSE Except(Candidates(analysis.groups[k]), selections[k].n)])

\* C8: a Skipped or Failed deletion does not end the run: every path of removable_files
\* (batch), every other candidate of every resolved group and every group (interactive)
\* is attempted, and the counts are reported at the end.
C8_FailuresDoNotAbort ==
    /\ Len(results) = Len(attempted)
    /\ pc = "done" /\ summary.kind = "done" =>
          /\ ~interactive => attempted = analysis.removable_files
          /\ interactive =>
                /\ Len(selections) = Len(analysis.groups)
                /\ attempted = ToAttempt
          /\ summary.count = deleted_count
          /\ summary.bytes = deleted_bytes
          /\ exit_code = ExitSuccess

\* C8: a batch run whose first deletion failed and whose second was skipped went on to
\* a third
C8_Witness ==
    /\ pc = "done" /\ summary.kind = "done"
    /\ ~interactive
    /\ Len(results) = 3
    /\ results[1] = "FAILED" /\ results[2] = "SKIPPED" /\ results[3] = "DELETED"

\* the paths the run removed
Removed == {p \in AllPaths : fs0[p].present /\ ~fs[p].present}

\* how many calls of delete_path ended with the tag
Tagged(tag) == Cardinality({i \in 1..Len(results) : results[i] = tag})

\* C9: the deleted count is the number of paths whose removal succeeded and the deleted
\* bytes the sum of their sizes; Skipped and Failed paths add nothing; the summary at
\* the end of a batch or interactive run reports these two numbers.
C9_CountsOnlySuccesses ==
    /\ deleted_count = Cardinality(Removed)
    /\ deleted_count = Tagged("DELETED")
    /\ deleted_bytes = SumOver(Removed, [p \in AllPaths |-> Len(fs0[p].data)])
    /\ pc = "done" /\ summary.kind = "done" =>
          summary.count = deleted_count /\ summary.bytes = deleted_bytes

\* C9: a run with a deleted, a failed and a skipped path
C9_Witness ==
    /\ pc = "done" /\ summary.kind = "done"
    /\ Tagged("DELETED") = 1 /\ Tagged("FAILED") = 1 /\ Tagged("SKIPPED") = 1
    /\ summary.count = 1

\* C10: the exit status is non-zero when the target path does not exist and when
\* writing a requested report fails, and zero in every other terminating run.
C10_ExitStatus ==
    pc = "done" =>
        (exit_code = ExitFailure <=> (~root_exists \/ summary.kind = "report failed"))

-----------------------------------------------------------------------------
(* The claims about the interactive prompt, checked under Spec *)

\* the lines of Lines that are empty once trimmed
EmptyLines == {EOF, <<"\n">>}

\* the lines of Lines that are the keep-all token
KeepAllLines == {<<"a", "\n">>, <<"A", "L", "l", "\n">>}

\* the lines of Lines that are an integer, with the integer
NumberLines == {<<<<"0", "\n">>, 0>>, <<<<"1", "\n">>, 1>>, <<<<" ", "2", "\n">>, 2>>,
                <<<<"3", "\n">>, 3>>, <<<<"4", "\n">>, 4>>, <<<<"5", "\n">>, 5>>,
                <<<<"+", "2", "\n">>, 2>>, <<<<"0", "3", "\n">>, 3>>}

\* the outcome the prompt is to give to a line, for a group of max candidates
ExpectedOutcome(line, max) ==
    IF line \in EmptyLines THEN Resolved(1)
    ELSE IF line \in KeepAllLines THEN KeptAll
    ELSE IF \E e \in NumberLines : e[1] = line /\ e[2] >= 1 /\ e[2] <= max
         THEN Resolved((CHOOSE e \in NumberLines : e[1] = line)[2])
    ELSE AwaitingChoice

\* C11: the prompt for a group gives each input line one outcome: an empty line gives
\* Resolved(1), an integer n of 1..candidate_count gives Resolved(n), "a" or "all" in
\* any case gives KeptAll, and every other line leaves the group awaiting a choice: it
\* is prompted again and nothing is deleted.
C11_PromptOutcome ==
    [][pc = "prompt" /\ input' # ReadError =>
          LET max == Len(Candidates(analysis.groups[gidx]))
              expected == ExpectedOutcome(input', max)
          IN  /\ attempted' = attempted
              /\ fs' = fs
              /\ expected = AwaitingChoice =>
                    /\ pc' = "prompt" /\ gidx' = gidx
                    /\ prompts' = prompts + 1
                    /\ selections' = selections
              /\ expected # AwaitingChoice =>
                    /\ selections' = Append(selections, expected)
                    /\ pc' = IF expected = KeptAll
                             THEN (IF gidx = Len(analysis.groups) THEN "summary" ELSE "prompt")
                             ELSE "delete_candidates"]_vars

\* C11: a group was prompted for twice more, after a "0" and after a number above its
\* candidate count, and nothing has been deleted
C11_Witness ==
    /\ pc = "prompt"
    /\ prompts = 2
    /\ input = <<"5", "\n">>
    /\ attempted = <<>>
    /\ selections = <<>>

-----------------------------------------------------------------------------
(* The claim about files that fail to hash, checked under SpecAnalyse *)

\* hashing this path fails: it cannot be opened or cannot be read
HashFails(p) == ~fs[p].present \/ p \in unreadable

\* the path list without the paths whose hashing fails
Hashable(list) == SelectSeq(list, LAMBDA p : ~HashFails(p))

\* the listed paths that hash to digest d, in list order
BucketOf(d) == SelectSeq(files, LAMBDA p : ~HashFails(p) /\ Digest(fs[p].data) = d)

\* C12: a file whose hashing fails is in no bucket of the digest map, in no group (as
\* keep or as dupe) and not in removable_files; the other files are hashed and bucketed
\* all the same, and map and groups are those of the path list without the failing file.
C12_HashFailureExcluded ==
    /\ pc # "lib" =>
          /\ \A d \in DOMAIN hash_map : hash_map[d] # <<>> /\ hash_map[d] = BucketOf(d)
          /\ \A p \in Range(files) :
                IF HashFails(p)
                THEN \A d \in DOMAIN hash_map : p \notin Range(hash_map[d])
                ELSE Digest(fs[p].data) \in DOMAIN hash_map
          /\ hash_map = build_hash_map(Hashable(files))
    /\ pc \in {"analysed_lib", "reanalysed"} =>
          /\ \A p \in Range(files) :
                HashFails(p) =>
                   /\ p \notin Range(analysis.removable_files)
                   /\ \A i \in 1..Len(analysis.groups) :
                         p \notin Range(Candidates(analysis.groups[i]))
          /\ \E order \in Perms(DOMAIN build_hash_map(Hashable(files))) :
                analysis = analyse_duplicates(build_hash_map(Hashable(files)), order, meta)

\* C12: a listed file that cannot be hashed has the content of a group of two others
C12_Witness ==
    /\ pc = "analysed_lib"
    /\ Len(analysis.groups) = 1
    /\ \E p \in Range(files) :
          /\ HashFails(p)
          /\ fs[p].data = fs[analysis.groups[1].keep].data
          /\ Len(analysis.groups[1].dupes) = 1
          /\ p \notin Range(Candidates(analysis.groups[1]))

-----------------------------------------------------------------------------
(* The claim about the written report, checked under Spec *)

\* C13: when a report was written for an analysis with at least one group, some entry
\* of its duplicate_groups carries a `dupes` list that is not empty.
C13_ReportGroupHasDupes ==
    report.written /\ analysis.groups # <<>> =>
        \E i \in 1..Len(report.duplicate_groups) :
           /\ "dupes" \in DOMAIN report.duplicate_groups[i]
           /\ report.duplicate_groups[i].dupes # <<>>

-----------------------------------------------------------------------------
(* The claims about the order of an interactive run, checked under Spec *)

\* C14: in interactive mode the groups are presented in the order of analysis.groups;
\* group gidx is presented when exactly the groups before it have a terminal state and
\* all their deletions are done; deletions follow the order of the groups and touch
\* resolved groups only; a terminal state, once given, is never changed or given
\* again; at the end every group has one.
C14_GroupsInOrder ==
    /\ [](InteractiveMode =>
            /\ \A k \in 1..Len(selections) : selections[k].kind \in {"Resolved", "KeptAll"}
            /\ Len(selections) <= Len(analysis.groups)
            /\ IsPrefix(attempted, ToAttempt)
            /\ pc = "prompt" =>
                  /\ gidx \in 1..Len(analysis.groups)
                  /\ Len(selections) = gidx - 1
                  /\ attempted = ToAttempt
            /\ pc = "delete_candidates" =>
                  /\ gidx \in 1..Len(analysis.groups)
                  /\ Len(selections) = gidx
                  /\ selections[gidx].kind = "Resolved"
            /\ pc \in {"summary", "done"} =>
                  /\ Len(selections) = Len(analysis.groups)
                  /\ attempted = ToAttempt)
    /\ [][/\ IsPrefix(selections, selections')
          /\ IsPrefix(attempted, attempted')
          /\ gidx' \in {gidx, gidx + 1}
          /\ selections' # selections =>
                /\ pc = "prompt"
                /\ Len(selections') = gidx
          /\ (pc' = "prompt" /\ (pc # "prompt" \/ gidx' # gidx)) =>
                gidx' = Len(selections') + 1]_vars

\* C14: an interactive run over two groups ended: the first was resolved to its second
\* candidate, then the second was kept whole, and one deletion was attempted
C14_Witness ==
    /\ InteractiveMode
    /\ pc = "done"
    /\ Len(analysis.groups) = 2
    /\ selections = <<Resolved(2), KeptAll>>
    /\ attempted = <<analysis.groups[1].keep>>

\* C15: whatever the mode, the operator's lines and the outcomes of the deletions, every
\* group has a member on which no deletion is attempted and which is still there with
\* its content unless the report was written over it: the keep in batch mode, the
\* selected candidate or every candidate in interactive mode.
C15_OneCopySurvives ==
    \A i \in 1..Len(analysis.groups) :
       LET g == analysis.groups[i]
           c == Candidates(g)
           Spared(p) == /\ p \notin Range(attempted)
                        /\ json_output = NoOutput => fs[p].present /\ fs[p] = fs0[p]
       IN  /\ \E j \in 1..Len(c) : Spared(c[j])
           /\ ~interactive => Spared(g.keep)
           /\ interactive /\ i <= Len(selections) =>
                 IF selections[i].kind = "KeptAll"
                 THEN \A j \in 1..Len(c) : Spared(c[j])
                 ELSE Spared(c[selections[i].n])

\* C15: an interactive run over two groups, the last candidate selected in both, every
\* deletion done: of each group the selected file alone is left
C15_Witness ==
    /\ InteractiveMode
    /\ pc = "done"
    /\ Len(analysis.groups) = 2
    /\ selections = <<Resolved(2), Resolved(2)>>
    /\ results = <<"DELETED", "DELETED">>
    /\ \A i \in 1..2 :
          /\ ~fs[analysis.groups[i].keep].present
          /\ fs[analysis.groups[i].dupes[1]].present

-----------------------------------------------------------------------------
(* The claim about the end of the input, checked under SpecInteractive *)

\* the group at the prompt gets Resolved(1) by this step
ResolvesToDefault ==
    /\ selections' = Append(selections, Resolved(1))
    /\ pc' = "delete_candidates"
    /\ gidx' = gidx

\* every candidate but the first of every group resolved as Resolved(1) was handed to
\* delete_path
DefaultedDupesAttempted ==
    \A k \in 1..Len(selections) :
       selections[k] = Resolved(1) /\ GroupFinished(k) =>
          \A p \in Range(analysis.groups[k].dupes) : p \in Range(attempted)

\* C16, as stated: the run ends, and from a read that met the end of the input or that
\* failed on, the group at the prompt and every group after it is resolved as
\* Resolved(1): a group prompted right after such a read gets no other terminal state.
C16_AllRemainingDefaulted ==
    /\ <>(pc = "done")
    /\ [][pc = "prompt" /\ (input' \in {EOF, ReadError} \/ input \in {EOF, ReadError}) =>
             selections' \in {selections, Append(selections, Resolved(1))}]_vars

\* C16, amended: the run ends with its summary; a read that meets the end of the input
\* or fails resolves the group at the prompt as Resolved(1); once the end of the input
\* was met every later group is resolved as Resolved(1) too; the dupes of the groups
\* resolved so are all handed to deletion.
C16_ExhaustedInputDefaults ==
    /\ <>(pc = "done" /\ exit_code = ExitSuccess)
    /\ [](pc = "done" /\ analysis.groups # <<>> =>
             /\ summary.kind = "done"
             /\ Len(selections) = Len(analysis.groups))
    /\ []DefaultedDupesAttempted
    /\ [][pc = "prompt" /\ input' \in {EOF, ReadError} => ResolvesToDefault]_vars
    /\ [][pc = "prompt" /\ input = EOF => input' = EOF /\ ResolvesToDefault]_vars

\* C16: the input ended at the prompt of the first of two groups: both were resolved as
\* Resolved(1), the dupes of both were handed to deletion, and the run printed its summary
C16_Witness ==
    /\ pc = "done" /\ summary.kind = "done"
    /\ input = EOF
    /\ prompts = 0
    /\ Len(analysis.groups) = 2
    /\ selections = <<Resolved(1), Resolved(1)>>
    /\ attempted = analysis.removable_files
    /\ Len(attempted) >= 2

====
